---- MODULE Spec2Model ----
(***************************************************************************)
(* State-machine model of the profile handlers of users/views.py:          *)
(* PassengerViewSet and RiderViewSet (ownership-scoped querysets, create,  *)
(* update, my_profile) and the availability cache of RiderViewSet          *)
(* (available_riders, update_location), with the serializers of            *)
(* users/serializers.py.                                                   *)
(*                                                                         *)
(* The relational store is two tables (sequences of rows, a row's id being *)
(* its position).  The Django cache is one slot, key 'available_riders'.   *)
(* available_riders and update_location are modelled statement by          *)
(* statement (cache.get / queryset evaluation / cache.set, and get_object  *)
(* / save / cache.delete), each request running in a request slot, so that *)
(* requests can be interleaved.  The other handlers are one store access   *)
(* each and are one step.                                                  *)
(***************************************************************************)
EXTENDS Integers, Sequences, FiniteSets, TLC

\* ------------------------------------------------------------------ bounds
MaxRiders == 2        \* rows the Rider table may hold
MaxPassengers == 2    \* rows the Passenger table may hold
TickStep == 150       \* seconds the clock advances in one Tick
MaxTime == 300        \* the clock stops here

\* --------------------------------------------------------------- constants
CACHE_TIMEOUT == 300  \* cache.set(cache_key, serializer.data, 300)
HTTP_200_OK == 200
HTTP_201_CREATED == 201
HTTP_403_FORBIDDEN == 403
HTTP_404_NOT_FOUND == 404

\* ------------------------------------------------------------------- users
\* Authenticated requesters.  "admin" is the one with User.is_staff set.
Users == {"u1", "u2", "admin"}
is_staff(u) == u = "admin"

\* Python's None, for the nullable coordinate columns.
None == "None"
\* Coordinate values a client may send (DRF renders decimals as strings).
Coords == {"1.00"}
VerificationStatus == {"pending", "approved"}
Procs == {1, 2}

\* ------------------------------------------------------------- serializers
\* UserSerializer: the nested owning-user view (id stands for the identity
\* attributes; the password is not among Meta.fields).
UserSerializer(u) == [id |-> u]

\* PassengerSerializer.data of one row: user is rendered nested.
PassengerSerializer(row) ==
    [id |-> row.id, user |-> UserSerializer(row.user), is_verified |-> row.is_verified]

\* RiderSerializer.data of one row.
RiderSerializer(row) ==
    [id |-> row.id, user |-> UserSerializer(row.user),
     verification_status |-> row.verification_status,
     is_available |-> row.is_available,
     current_latitude |-> row.current_latitude,
     current_longitude |-> row.current_longitude,
     average_rating |-> row.average_rating,
     total_rides |-> row.total_rides,
     total_earnings |-> row.total_earnings]

\* get_serializer(queryset, many=True).data
PassengerSerializerMany(rows) == [i \in 1..Len(rows) |-> PassengerSerializer(rows[i])]
RiderSerializerMany(rows) == [i \in 1..Len(rows) |-> RiderSerializer(rows[i])]

\* Fields of Meta.fields a client can write: not in read_only_fields, and not
\* user (declared read_only=True).  Input for any other field is dropped by
\* the serializer, silently.
PassengerWritable == {"is_verified"}
RiderWritable ==
    {"verification_status", "is_available", "current_latitude", "current_longitude"}

\* serializer.validated_data for request data `data` (a record of the fields sent)
Passenger_validated_data(data) ==
    [f \in (DOMAIN data) \cap PassengerWritable |-> data[f]]
\* validated_data of a serializer that declares no field read-only
Rider_validated_data_unchecked(data) == data
Rider_validated_data(data) ==
    [f \in (DOMAIN data) \cap RiderWritable |-> data[f]]

\* Column values of a new row for the columns the request does not set.
PassengerDefaults == [is_verified |-> FALSE]
RiderDefaults ==
    [verification_status |-> "pending", is_available |-> FALSE,
     current_latitude |-> None, current_longitude |-> None,
     average_rating |-> "0.00", total_rides |-> "0", total_earnings |-> "0.00"]

\* instance.<f> = value for every f of `attrs`, the other columns kept
SetAttrs(row, attrs) ==
    [f \in DOMAIN row |-> IF f \in DOMAIN attrs THEN attrs[f] ELSE row[f]]

\* ------------------------------------------------------------------- state
VARIABLES
    passengers,   \* the Passenger table
    riders,       \* the Rider table
    cache,        \* the slot 'available_riders': <<>> (absent) or <<entry>>
    now,          \* the clock, in seconds
    pc,           \* pc[p]: where the request running in slot p stands
    local,        \* local[p]: that request's local variables
    resp,         \* the response sent last
    \* history variables: they record what happened and no action reads them
    invalidated,  \* <<what it deleted>> when an update_location has returned
                  \* 200 and no available_riders call has returned since,
                  \* <<>> otherwise
    last_ar,      \* <<the previous available_riders response>>, <<>> when
                  \* there is none since the last successful update_location
    prov          \* provenance of the payloads held in the slot and in flight

prog == <<passengers, riders, cache, now, pc, local, resp>>
vars == <<passengers, riders, cache, now, pc, local, resp, invalidated, last_ar, prov>>

NoResponse ==
    [op |-> "none", user |-> "-", id |-> 0, status |-> 0, body |-> <<>>,
     error |-> "", source |-> "-"]
Response(op, u, id, st, body) ==
    [op |-> op, user |-> u, id |-> id, status |-> st, body |-> body,
     error |-> "", source |-> "-"]
ErrorResponse(op, u, id, st, msg) ==
    [op |-> op, user |-> u, id |-> id, status |-> st, body |-> <<>>,
     error |-> msg, source |-> "-"]

IdleLocal == [user |-> "-", id |-> 0, rider |-> <<>>, data |-> <<>>]

\* Provenance of a payload: stale is the set of update_location requests
\* that saved after the payload was read from the store and have not
\* returned yet; old says that such a request has returned.
Fresh == [stale |-> {}, old |-> FALSE]
NoProv == [cache |-> Fresh, local |-> [p \in Procs |-> Fresh]]

Init ==
    /\ passengers = <<>>
    /\ riders = <<>>
    /\ cache = <<>>
    /\ now = 0
    /\ pc = [p \in Procs |-> "idle"]
    /\ local = [p \in Procs |-> IdleLocal]
    /\ resp = NoResponse
    /\ invalidated = <<>>
    /\ last_ar = <<>>
    /\ prov = NoProv

\* --------------------------------------------------------------- querysets
\* Passenger.objects.filter(user=u), Rider.objects.filter(user=u)
PassengersOf(u) == SelectSeq(passengers, LAMBDA r : r.user = u)
RidersOf(u) == SelectSeq(riders, LAMBDA r : r.user = u)

\* PassengerViewSet.get_queryset
Passenger_get_queryset(u) ==
    IF is_staff(u) THEN passengers ELSE PassengersOf(u)

\* get_queryset without the ownership filter
Rider_get_queryset_unfiltered(u) == riders

\* get_queryset with the ownership filter applied to staff too
Rider_get_queryset_owner_only(u) == RidersOf(u)

\* RiderViewSet.get_queryset
Rider_get_queryset(u) ==
    IF is_staff(u) THEN riders ELSE RidersOf(u)

\* get_object(): the row with pk = id of a queryset, <<>> when there is none
\* (Http404)
GetObject(qs, id) == SelectSeq(qs, LAMBDA r : r.id = id)

\* ------------------------------------------------- PassengerViewSet, 1 step
Passenger_list(u) ==
    /\ resp' = Response("passenger.list", u, 0, HTTP_200_OK,
                        PassengerSerializerMany(Passenger_get_queryset(u)))
    /\ UNCHANGED <<passengers, riders, cache, now, pc, local>>

Passenger_retrieve(u, id) ==
    /\ LET obj == GetObject(Passenger_get_queryset(u), id) IN
         resp' = IF obj = <<>>
                 THEN ErrorResponse("passenger.retrieve", u, id, HTTP_404_NOT_FOUND, "Not found.")
                 ELSE Response("passenger.retrieve", u, id, HTTP_200_OK,
                               PassengerSerializerMany(obj))
    /\ UNCHANGED <<passengers, riders, cache, now, pc, local>>

\* perform_create: serializer.save(user=self.request.user)
Passenger_perform_create(u, data) ==
    SetAttrs([id |-> Len(passengers) + 1, user |-> u] @@ PassengerDefaults,
             Passenger_validated_data(data))

\* The one-to-one column Passenger.user is unique: a second row for the same
\* user is refused by the store.
Passenger_user_taken(u) == PassengersOf(u) # <<>>

\* create: perform_create, unless the store refuses the row (the request
\* then fails)
Passenger_create(u, data) ==
    /\ Len(passengers) < MaxPassengers
    /\ IF Passenger_user_taken(u)
       THEN /\ resp' = ErrorResponse("passenger.create", u, 0,
                                     500, "IntegrityError")
            /\ UNCHANGED passengers
       ELSE LET row == Passenger_perform_create(u, data) IN
            /\ passengers' = Append(passengers, row)
            /\ resp' = Response("passenger.create", u, row.id, HTTP_201_CREATED,
                                <<PassengerSerializer(row)>>)
    /\ UNCHANGED <<riders, cache, now, pc, local>>

\* update / partial_update: get_object, then serializer.save()
Passenger_update(u, id, data) ==
    /\ LET obj == GetObject(Passenger_get_queryset(u), id) IN
         IF obj = <<>>
         THEN /\ resp' = ErrorResponse("passenger.update", u, id, HTTP_404_NOT_FOUND, "Not found.")
              /\ UNCHANGED passengers
         ELSE LET row == SetAttrs(obj[1], Passenger_validated_data(data)) IN
              /\ passengers' = [passengers EXCEPT ![id] = row]
              /\ resp' = Response("passenger.update", u, id, HTTP_200_OK,
                                  <<PassengerSerializer(row)>>)
    /\ UNCHANGED <<riders, cache, now, pc, local>>

Passenger_my_profile(u) ==
    /\ LET mine == PassengersOf(u) IN
         resp' = IF mine = <<>>
                 THEN ErrorResponse("passenger.my_profile", u, 0, HTTP_404_NOT_FOUND,
                                    "Passenger profile not found")
                 ELSE Response("passenger.my_profile", u, mine[1].id, HTTP_200_OK,
                               <<PassengerSerializer(mine[1])>>)
    /\ UNCHANGED <<passengers, riders, cache, now, pc, local>>

\* ----------------------------------------------------- RiderViewSet, 1 step
Rider_list(u) ==
    /\ resp' = Response("rider.list", u, 0, HTTP_200_OK,
                        RiderSerializerMany(Rider_get_queryset(u)))
    /\ UNCHANGED <<passengers, riders, cache, now, pc, local>>

Rider_retrieve(u, id) ==
    /\ LET obj == GetObject(Rider_get_queryset(u), id) IN
         resp' = IF obj = <<>>
                 THEN ErrorResponse("rider.retrieve", u, id, HTTP_404_NOT_FOUND, "Not found.")
                 ELSE Response("rider.retrieve", u, id, HTTP_200_OK,
                               RiderSerializerMany(obj))
    /\ UNCHANGED <<passengers, riders, cache, now, pc, local>>

\* perform_create that lets the payload name the owner
Rider_perform_create_payload_owner(u, data) ==
    SetAttrs([id |-> Len(riders) + 1,
              user |-> IF "user" \in DOMAIN data THEN data.user ELSE u] @@ RiderDefaults,
             Rider_validated_data(data))

\* perform_create: serializer.save(user=self.request.user)
Rider_perform_create(u, data) ==
    SetAttrs([id |-> Len(riders) + 1, user |-> u] @@ RiderDefaults,
             Rider_validated_data(data))

\* The one-to-one column Rider.user is unique.
Rider_user_taken(u) == RidersOf(u) # <<>>

Rider_create(u, data) ==
    /\ Len(riders) < MaxRiders
    /\ IF Rider_user_taken(u)
       THEN /\ resp' = ErrorResponse("rider.create", u, 0,
                                     500, "IntegrityError")
            /\ UNCHANGED riders
       ELSE LET row == Rider_perform_create(u, data) IN
            /\ riders' = Append(riders, row)
            /\ resp' = Response("rider.create", u, row.id, HTTP_201_CREATED,
                                <<RiderSerializer(row)>>)
    /\ UNCHANGED <<passengers, cache, now, pc, local>>

\* update that clears the availability cache after saving
Rider_update_invalidating(u, id, data) ==
    /\ LET obj == GetObject(Rider_get_queryset(u), id) IN
         IF obj = <<>>
         THEN /\ resp' = ErrorResponse("rider.update", u, id, HTTP_404_NOT_FOUND, "Not found.")
              /\ UNCHANGED <<riders, cache>>
         ELSE LET row == SetAttrs(obj[1], Rider_validated_data(data)) IN
              /\ riders' = [riders EXCEPT ![id] = row]
              /\ cache' = <<>>
              /\ resp' = Response("rider.update", u, id, HTTP_200_OK,
                                  <<RiderSerializer(row)>>)
    /\ UNCHANGED <<passengers, now, pc, local>>

\* update that saves with user=request.user, as perform_create does
Rider_update_stamping(u, id, data) ==
    /\ LET obj == GetObject(Rider_get_queryset(u), id) IN
         IF obj = <<>>
         THEN /\ resp' = ErrorResponse("rider.update", u, id, HTTP_404_NOT_FOUND, "Not found.")
              /\ UNCHANGED riders
         ELSE LET row == [SetAttrs(obj[1], Rider_validated_data(data)) EXCEPT !.user = u] IN
              /\ riders' = [riders EXCEPT ![id] = row]
              /\ resp' = Response("rider.update", u, id, HTTP_200_OK,
                                  <<RiderSerializer(row)>>)
    /\ UNCHANGED <<passengers, cache, now, pc, local>>

\* update / partial_update: get_object, then serializer.save().  The cache
\* is not touched.
Rider_update(u, id, data) ==
    /\ LET obj == GetObject(Rider_get_queryset(u), id) IN
         IF obj = <<>>
         THEN /\ resp' = ErrorResponse("rider.update", u, id, HTTP_404_NOT_FOUND, "Not found.")
              /\ UNCHANGED riders
         ELSE LET row == SetAttrs(obj[1], Rider_validated_data(data)) IN
              /\ riders' = [riders EXCEPT ![id] = row]
              /\ resp' = Response("rider.update", u, id, HTTP_200_OK,
                                  <<RiderSerializer(row)>>)
    /\ UNCHANGED <<passengers, cache, now, pc, local>>

\* my_profile that looks the profile up in get_queryset() instead of by owner
Rider_my_profile_first(u) ==
    /\ LET mine == Rider_get_queryset(u) IN
         resp' = IF mine = <<>>
                 THEN ErrorResponse("rider.my_profile", u, 0, HTTP_404_NOT_FOUND,
                                    "Rider profile not found")
                 ELSE Response("rider.my_profile", u, mine[1].id, HTTP_200_OK,
                               <<RiderSerializer(mine[1])>>)
    /\ UNCHANGED <<passengers, riders, cache, now, pc, local>>

Rider_my_profile(u) ==
    /\ LET mine == RidersOf(u) IN
         resp' = IF mine = <<>>
                 THEN ErrorResponse("rider.my_profile", u, 0, HTTP_404_NOT_FOUND,
                                    "Rider profile not found")
                 ELSE Response("rider.my_profile", u, mine[1].id, HTTP_200_OK,
                               <<RiderSerializer(mine[1])>>)
    /\ UNCHANGED <<passengers, riders, cache, now, pc, local>>



\* ------------------------------------------------------------------- cache
\* cache.get that finds nothing
CacheGet_miss(c, t) == <<>>

\* cache.get that still returns an entry at the second it expires
CacheGet_inclusive(c, t) == IF c # <<>> /\ t <= c[1].expires THEN c ELSE <<>>

\* cache.get(key): <<the entry>>, or <<>> (None) when the slot is absent or
\* its entry has expired
CacheGet(c, t) == IF c # <<>> /\ t < c[1].expires THEN c ELSE <<>>

\* cache.set(key, value, timeout)
CacheSet(value, timeout, t) == <<[value |-> value, expires |-> t + timeout]>>

\* cache.delete(key)
CacheDelete == <<>>

\* the filter without the verification_status test
AvailableRiders_unverified == SelectSeq(riders, LAMBDA r : r.is_available)

\* Rider.objects.filter(is_available=True, verification_status='approved')
AvailableRiders ==
    SelectSeq(riders, LAMBDA r : r.is_available /\ r.verification_status = "approved")

\* -------------------------------------------- RiderViewSet.available_riders
\* available_riders testing the cached payload for truth (if cached_data:)
\* instead of for None
Rider_available_riders_get_truthy(p, u) ==
    /\ pc[p] = "idle"
    /\ LET cached_data == CacheGet(cache, now) IN
         IF cached_data # <<>> /\ cached_data[1].value # <<>>
         THEN /\ pc' = [pc EXCEPT ![p] = "ar_hit"]
              /\ local' = [local EXCEPT ![p] =
                    [IdleLocal EXCEPT !.user = u, !.data = cached_data[1].value]]
         ELSE /\ pc' = [pc EXCEPT ![p] = "ar_filter"]
              /\ local' = [local EXCEPT ![p] = [IdleLocal EXCEPT !.user = u]]
    /\ UNCHANGED <<passengers, riders, cache, now, resp>>

\* cached_data = cache.get(cache_key); if cached_data is not None: ...
Rider_available_riders_get(p, u) ==
    /\ pc[p] = "idle"
    /\ LET cached_data == CacheGet(cache, now) IN
         IF cached_data # <<>>
         THEN /\ pc' = [pc EXCEPT ![p] = "ar_hit"]
              /\ local' = [local EXCEPT ![p] =
                    [IdleLocal EXCEPT !.user = u, !.data = cached_data[1].value]]
         ELSE /\ pc' = [pc EXCEPT ![p] = "ar_filter"]
              /\ local' = [local EXCEPT ![p] = [IdleLocal EXCEPT !.user = u]]
    /\ UNCHANGED <<passengers, riders, cache, now, resp>>

AvailableResponse(l, source) ==
    [Response("rider.available_riders", l.user, 0, HTTP_200_OK, l.data)
        EXCEPT !.source = source]

\* return Response(cached_data)
Rider_available_riders_hit(p) ==
    /\ pc[p] = "ar_hit"
    /\ resp' = AvailableResponse(local[p], "cache")
    /\ pc' = [pc EXCEPT ![p] = "idle"]
    /\ local' = [local EXCEPT ![p] = IdleLocal]
    /\ UNCHANGED <<passengers, riders, cache, now>>

\* available_riders filtering get_queryset(), the requester's own rows
\* unless staff, instead of Rider.objects
Rider_available_riders_filter_scoped(p) ==
    /\ pc[p] = "ar_filter"
    /\ local' = [local EXCEPT ![p].data =
            RiderSerializerMany(SelectSeq(Rider_get_queryset(local[p].user),
                LAMBDA r : r.is_available /\ r.verification_status = "approved"))]
    /\ pc' = [pc EXCEPT ![p] = "ar_set"]
    /\ UNCHANGED <<passengers, riders, cache, now, resp>>

\* the queryset is evaluated and serialized (serializer.data)
Rider_available_riders_filter(p) ==
    /\ pc[p] = "ar_filter"
    /\ local' = [local EXCEPT ![p].data = RiderSerializerMany(AvailableRiders)]
    /\ pc' = [pc EXCEPT ![p] = "ar_set"]
    /\ UNCHANGED <<passengers, riders, cache, now, resp>>

\* available_riders that stores its payload only when the slot is empty
\* (cache.add)
Rider_available_riders_set_if_absent(p) ==
    /\ pc[p] = "ar_set"
    /\ cache' = IF CacheGet(cache, now) # <<>> THEN cache
                ELSE CacheSet(local[p].data, CACHE_TIMEOUT, now)
    /\ resp' = AvailableResponse(local[p], "store")
    /\ pc' = [pc EXCEPT ![p] = "idle"]
    /\ local' = [local EXCEPT ![p] = IdleLocal]
    /\ UNCHANGED <<passengers, riders, now>>

\* cache.set(cache_key, serializer.data, 300); return Response(serializer.data)
Rider_available_riders_set(p) ==
    /\ pc[p] = "ar_set"
    /\ cache' = CacheSet(local[p].data, CACHE_TIMEOUT, now)
    /\ resp' = AvailableResponse(local[p], "store")
    /\ pc' = [pc EXCEPT ![p] = "idle"]
    /\ local' = [local EXCEPT ![p] = IdleLocal]
    /\ UNCHANGED <<passengers, riders, now>>

\* --------------------------------------------- RiderViewSet.update_location
\* latitude = request.data.get('current_latitude'), ...: a key left out, or
\* sent as null, reads as None and leaves the attribute alone
LocationAttrs(data) ==
    [f \in {g \in (DOMAIN data) \cap {"current_latitude", "current_longitude"} :
                data[g] # None} |-> data[f]]

\* rider = self.get_object(); the permission test; the two assignments
Rider_update_location_get_object(p, u, id, data) ==
    /\ pc[p] = "idle"
    /\ LET obj == GetObject(Rider_get_queryset(u), id) IN
         IF obj = <<>>
         THEN /\ resp' = ErrorResponse("rider.update_location", u, id,
                                       HTTP_404_NOT_FOUND, "Not found.")
              /\ UNCHANGED <<pc, local>>
         ELSE IF obj[1].user # u /\ ~is_staff(u)
         THEN /\ resp' = ErrorResponse("rider.update_location", u, id,
                                       HTTP_403_FORBIDDEN, "Permission denied")
              /\ UNCHANGED <<pc, local>>
         ELSE /\ local' = [local EXCEPT ![p] =
                    [IdleLocal EXCEPT !.user = u, !.id = id, !.data = data,
                                      !.rider = <<SetAttrs(obj[1], LocationAttrs(data))>>]]
              /\ pc' = [pc EXCEPT ![p] = "ul_save"]
              /\ UNCHANGED resp
    /\ UNCHANGED <<passengers, riders, cache, now>>

\* rider.save(): every column of the row is written from the instance
Rider_update_location_save(p) ==
    /\ pc[p] = "ul_save"
    /\ riders' = [riders EXCEPT ![local[p].id] = local[p].rider[1]]
    /\ pc' = [pc EXCEPT ![p] = "ul_delete"]
    /\ UNCHANGED <<passengers, cache, now, local, resp>>

\* update_location that returns without cache.delete
Rider_update_location_delete_skipped(p) ==
    /\ pc[p] = "ul_delete"
    /\ resp' = Response("rider.update_location", local[p].user, local[p].id,
                        HTTP_200_OK, <<RiderSerializer(local[p].rider[1])>>)
    /\ pc' = [pc EXCEPT ![p] = "idle"]
    /\ local' = [local EXCEPT ![p] = IdleLocal]
    /\ UNCHANGED <<passengers, riders, cache, now>>

\* cache.delete('available_riders'); return Response(serializer.data)
Rider_update_location_delete(p) ==
    /\ pc[p] = "ul_delete"
    /\ cache' = CacheDelete
    /\ resp' = Response("rider.update_location", local[p].user, local[p].id,
                        HTTP_200_OK, <<RiderSerializer(local[p].rider[1])>>)
    /\ pc' = [pc EXCEPT ![p] = "idle"]
    /\ local' = [local EXCEPT ![p] = IdleLocal]
    /\ UNCHANGED <<passengers, riders, now>>

\* ------------------------------------------------------------------- clock
Tick ==
    /\ now + TickStep <= MaxTime
    /\ now' = now + TickStep
    /\ UNCHANGED <<passengers, riders, cache, pc, local, resp>>

\* ----------------------------------------------------------------- history
\* The steps of a behaviour, told by the request's position.
ARBegins(p) == pc[p] = "idle" /\ pc'[p] \in {"ar_hit", "ar_filter"}
ARReads(p) == pc[p] = "ar_filter" /\ pc'[p] = "ar_set"
ARReturns(p) == pc[p] \in {"ar_hit", "ar_set"} /\ pc'[p] = "idle"
ULSaves(p) == pc[p] = "ul_save" /\ pc'[p] = "ul_delete"
ULReturns(p) == pc[p] = "ul_delete" /\ pc'[p] = "idle"

\* held: the slot held an unexpired entry when the update deleted it;
\* expires: when that entry would have expired.
ObserveInvalidated ==
    invalidated' =
        IF \E p \in Procs : ULReturns(p)
        THEN <<[held |-> CacheGet(cache, now) # <<>>,
                expires |-> IF cache = <<>> THEN 0 ELSE cache[1].expires]>>
        ELSE IF \E p \in Procs : ARReturns(p) THEN <<>>
        ELSE invalidated

\* The response just sent by available_riders, with the time of the call,
\* the expiry of the entry it served or stored, and the requester whose call
\* stored that entry.
ObserveLastAr ==
    last_ar' = IF \E p \in Procs : ARReturns(p)
               THEN <<[time |-> now, body |-> resp'.body, source |-> resp'.source,
                       expires |-> IF cache' = <<>> THEN now ELSE cache'[1].expires,
                       by |-> IF resp'.source = "cache" /\ last_ar # <<>>
                              THEN last_ar[1].by ELSE resp'.user]>>
               ELSE IF \E p \in Procs : ULReturns(p) THEN <<>>
               ELSE last_ar

ObserveProv ==
    prov' =
      IF \E p \in Procs : ULSaves(p)
      THEN LET p == CHOOSE q \in Procs : ULSaves(q) IN
           [cache |-> [prov.cache EXCEPT !.stale = @ \cup {p}],
            local |-> [q \in Procs |->
                        IF pc[q] = "ar_set"
                        THEN [prov.local[q] EXCEPT !.stale = @ \cup {p}]
                        ELSE prov.local[q]]]
      ELSE IF \E p \in Procs : ULReturns(p)
      THEN LET p == CHOOSE q \in Procs : ULReturns(q) IN
           [cache |-> Fresh,
            local |-> [q \in Procs |->
                        IF p \in prov.local[q].stale
                        THEN [stale |-> prov.local[q].stale \ {p}, old |-> TRUE]
                        ELSE prov.local[q]]]
      ELSE IF \E p \in Procs : pc[p] = "idle" /\ pc'[p] = "ar_hit"
      THEN LET p == CHOOSE q \in Procs : pc[q] = "idle" /\ pc'[q] = "ar_hit" IN
           [prov EXCEPT !.local[p] = [stale |-> {}, old |-> prov.cache.old]]
      ELSE IF \E p \in Procs : ARReads(p)
      THEN LET p == CHOOSE q \in Procs : ARReads(q) IN
           [prov EXCEPT !.local[p] = Fresh]
      ELSE IF \E p \in Procs : pc[p] = "ar_set" /\ pc'[p] = "idle"
      THEN LET p == CHOOSE q \in Procs : pc[q] = "ar_set" /\ pc'[q] = "idle" IN
           [cache |-> prov.local[p], local |-> [prov.local EXCEPT ![p] = Fresh]]
      ELSE prov

\* ------------------------------------------------------------ request data
\* What clients send.  A create or update may name an owner and the
\* server-computed fields as well as the writable ones.
PassengerData == {[user |-> "u2", is_verified |-> TRUE]}
RiderCreateData ==
    {[verification_status |-> "approved", is_available |-> TRUE],
     [user |-> "u2", average_rating |-> "5.00", total_rides |-> "9",
      total_earnings |-> "9.00"]}
RiderUpdateData ==
    {[user |-> "u2", is_available |-> TRUE, average_rating |-> "5.00"]}
\* PATCH update_location: either coordinate may be left out
LocationData ==
    {<<>>, [current_latitude |-> "1.00"], [current_longitude |-> "1.00"],
     [current_latitude |-> "1.00", current_longitude |-> "1.00"]}
LatitudeData == {<<>>, [current_latitude |-> "1.00"]}
\* update_location request data that also names an owner and the
\* server-computed fields
HostileLocationData ==
    {[current_latitude |-> "1.00", user |-> "u2", average_rating |-> "5.00",
      total_rides |-> "9", total_earnings |-> "9.00"]}
\* availability changes through the generic update path
AvailabilityData ==
    {[is_available |-> a] : a \in BOOLEAN}
    \cup {[verification_status |-> s] : s \in VerificationStatus}

\* ---------------------------------------------------------- specifications
\* The profile handlers of both view sets, from the empty store.
NoHistory == UNCHANGED <<invalidated, last_ar, prov>>

AccessNext ==
    \/ (\E u \in Users : Passenger_list(u)) /\ NoHistory
    \/ (\E u \in Users, id \in 1..MaxPassengers : Passenger_retrieve(u, id)) /\ NoHistory
    \/ (\E u \in Users, d \in PassengerData : Passenger_create(u, d)) /\ NoHistory
    \/ (\E u \in Users, id \in 1..MaxPassengers, d \in PassengerData :
            Passenger_update(u, id, d)) /\ NoHistory
    \/ (\E u \in Users : Passenger_my_profile(u)) /\ NoHistory
    \/ (\E u \in Users : Rider_list(u)) /\ NoHistory
    \/ (\E u \in Users, id \in 1..MaxRiders : Rider_retrieve(u, id)) /\ NoHistory
    \/ (\E u \in Users, d \in RiderCreateData : Rider_create(u, d)) /\ NoHistory
    \/ (\E u \in Users, id \in 1..MaxRiders, d \in RiderUpdateData :
            Rider_update(u, id, d)) /\ NoHistory
    \/ (\E u \in Users : Rider_my_profile(u)) /\ NoHistory

SpecAccess == Init /\ [][AccessNext]_vars

\* The store after u1 and u2 have each created a Rider profile and staff has
\* reviewed them: any availability, any verification status, no location yet.
RiderRow(id, u, s, a) ==
    SetAttrs([id |-> id, user |-> u] @@ RiderDefaults,
             [verification_status |-> s, is_available |-> a])

InitRiders ==
    /\ passengers = <<>>
    /\ \E s1 \in VerificationStatus, s2 \in VerificationStatus, a1 \in BOOLEAN, a2 \in BOOLEAN :
            riders = <<RiderRow(1, "u1", s1, a1), RiderRow(2, "u2", s2, a2)>>
    /\ cache = <<>>
    /\ now = 0
    /\ pc = [p \in Procs |-> "idle"]
    /\ local = [p \in Procs |-> IdleLocal]
    /\ resp = NoResponse
    /\ invalidated = <<>>
    /\ last_ar = <<>>
    /\ prov = NoProv

\* Requests served one at a time (in request slot 1): a request starts only
\* when none is in flight, and the clock moves between requests.
Idle == \A p \in Procs : pc[p] = "idle"

SerialUpdate ==
    Idle /\ \E id \in 1..MaxRiders, d \in AvailabilityData : Rider_update("admin", id, d)
SerialAvailable ==
    Idle /\ \E u \in {"u1", "admin"} : Rider_available_riders_get(1, u)
SerialLocation(D) ==
    Idle /\ \E u \in Users, id \in 1..MaxRiders, d \in D :
                Rider_update_location_get_object(1, u, id, d)

\* History recorded under Spec.
Obs == ObserveInvalidated /\ UNCHANGED <<last_ar, prov>>

Next ==
    \/ SerialUpdate /\ Obs
    \/ SerialAvailable /\ Obs
    \/ Rider_available_riders_hit(1) /\ Obs
    \/ Rider_available_riders_filter(1) /\ Obs
    \/ Rider_available_riders_set(1) /\ Obs
    \/ SerialLocation(LatitudeData) /\ Obs
    \/ Rider_update_location_save(1) /\ Obs
    \/ Rider_update_location_delete(1) /\ Obs
    \/ Idle /\ Tick /\ Obs

Spec == InitRiders /\ [][Next]_vars

\* Spec with the available_riders responses recorded.
ObsCalls == ObserveInvalidated /\ ObserveLastAr /\ UNCHANGED prov

NextCalls ==
    \/ SerialUpdate /\ ObsCalls
    \/ SerialAvailable /\ ObsCalls
    \/ Rider_available_riders_hit(1) /\ ObsCalls
    \/ Rider_available_riders_filter(1) /\ ObsCalls
    \/ Rider_available_riders_set(1) /\ ObsCalls
    \/ SerialLocation(LatitudeData) /\ ObsCalls
    \/ Rider_update_location_save(1) /\ ObsCalls
    \/ Rider_update_location_delete(1) /\ ObsCalls
    \/ Idle /\ Tick /\ ObsCalls

SpecCalls == InitRiders /\ [][NextCalls]_vars

\* Requests handled concurrently: a request may start in any free slot and
\* the statements of the requests in flight interleave.
ObsConc == ObserveProv /\ UNCHANGED <<invalidated, last_ar>>

NextConc ==
    \/ (\E p \in Procs : Rider_available_riders_get(p, "u1")) /\ ObsConc
    \/ (\E p \in Procs : Rider_available_riders_hit(p)) /\ ObsConc
    \/ (\E p \in Procs : Rider_available_riders_filter(p)) /\ ObsConc
    \/ (\E p \in Procs : Rider_available_riders_set(p)) /\ ObsConc
    \/ (\E p \in Procs, u \in {"u1", "admin"}, id \in 1..MaxRiders :
            Rider_update_location_get_object(p, u, id, [current_latitude |-> "1.00"]))
       /\ ObsConc
    \/ (\E p \in Procs : Rider_update_location_save(p)) /\ ObsConc
    \/ (\E p \in Procs : Rider_update_location_delete(p)) /\ ObsConc

\* Both riders listed (available and approved), so that every payload shows
\* the coordinates that were read.
InitListed ==
    InitRiders /\ \A i \in 1..Len(riders) :
        riders[i].is_available /\ riders[i].verification_status = "approved"

SpecConc == InitListed /\ [][NextConc]_vars

\* The requesters of SpecWrites: a non-staff user and staff ("u2" is the
\* owner the payloads name).
Writers == {"u1", "admin"}

\* Every operation that writes a profile, from the empty store: create and
\* update of both view sets and update_location, whose statements interleave
\* with the other requests.
NextWrites ==
    \/ (\E u \in Writers, d \in PassengerData : Passenger_create(u, d)) /\ NoHistory
    \/ (\E u \in Writers, id \in 1..MaxPassengers, d \in PassengerData :
            Passenger_update(u, id, d)) /\ NoHistory
    \/ (\E u \in Writers, d \in RiderCreateData : Rider_create(u, d)) /\ NoHistory
    \/ (\E u \in Writers, id \in 1..MaxRiders, d \in RiderUpdateData :
            Rider_update(u, id, d)) /\ NoHistory
    \/ (\E u \in Writers, id \in 1..MaxRiders, d \in HostileLocationData :
            Rider_update_location_get_object(1, u, id, d)) /\ NoHistory
    \/ Rider_update_location_save(1) /\ NoHistory
    \/ Rider_update_location_delete(1) /\ NoHistory

SpecWrites == Init /\ [][NextWrites]_vars

\* update_location with either coordinate, its statements interleaved with
\* update / partial_update requests by staff; both riders start listed.
NextLocation ==
    \/ (\E id \in 1..MaxRiders, d \in AvailabilityData : Rider_update("admin", id, d))
       /\ NoHistory
    \/ (\E u \in Users, id \in 1..MaxRiders, d \in LocationData :
            Rider_update_location_get_object(1, u, id, d)) /\ NoHistory
    \/ Rider_update_location_save(1) /\ NoHistory
    \/ Rider_update_location_delete(1) /\ NoHistory

SpecLocation == InitListed /\ [][NextLocation]_vars

\* ================================================================== claims
Owners(table) == {table[i].user : i \in 1..Len(table)}
BodyIds(r) == {r.body[i].id : i \in 1..Len(r.body)}

\* C1: a non-staff requester's list and retrieve responses hold no profile
\* owned by someone else: every profile in the body is the requester's, and
\* retrieve of another user's profile answers 404 with no profile.
C1_NonStaffSeesOnlyOwn ==
    /\ (resp.op \in {"passenger.list", "passenger.retrieve", "rider.list", "rider.retrieve"}
        /\ ~is_staff(resp.user))
       => \A i \in 1..Len(resp.body) : resp.body[i].user.id = resp.user
    /\ (resp.op = "passenger.retrieve" /\ ~is_staff(resp.user)
        /\ resp.id <= Len(passengers) /\ passengers[resp.id].user # resp.user)
       => resp.status = HTTP_404_NOT_FOUND /\ resp.body = <<>>
    /\ (resp.op = "rider.retrieve" /\ ~is_staff(resp.user)
        /\ resp.id <= Len(riders) /\ riders[resp.id].user # resp.user)
       => resp.status = HTTP_404_NOT_FOUND /\ resp.body = <<>>

\* u1 lists the riders when u2's profile (id 1) and u1's own (id 2) exist
\* and gets one profile; u1 retrieves u2's passenger profile and gets 404.
C1_Witness ==
    \/ /\ resp.op = "rider.list" /\ resp.user = "u1"
       /\ Len(riders) = 2 /\ riders[1].user = "u2" /\ riders[2].user = "u1"
       /\ Len(resp.body) = 1
    \/ /\ resp.op = "passenger.retrieve" /\ resp.user = "u1" /\ resp.id = 1
       /\ Len(passengers) >= 1 /\ passengers[1].user = "u2"
       /\ resp.status = HTTP_404_NOT_FOUND

\* C6: the row a create request appends is owned by the requester, and so
\* is the profile in the 201 response, whatever owner the payload names.
C6_CreateStampsRequester ==
    [][/\ Len(passengers') > Len(passengers)
          => /\ resp'.op = "passenger.create" /\ resp'.status = HTTP_201_CREATED
             /\ passengers'[Len(passengers')].user = resp'.user
             /\ resp'.body[1].user.id = resp'.user
       /\ Len(riders') > Len(riders)
          => /\ resp'.op = "rider.create" /\ resp'.status = HTTP_201_CREATED
             /\ riders'[Len(riders')].user = resp'.user
             /\ resp'.body[1].user.id = resp'.user]_vars

\* u1 has just created a rider from the payload that names u2 as owner (the
\* only one that leaves verification_status at its default), and a
\* passenger (every passenger payload names u2): both rows are u1's.
C6_Witness ==
    /\ resp.op = "rider.create" /\ resp.user = "u1" /\ resp.status = HTTP_201_CREATED
    /\ riders[resp.id].verification_status = "pending"
    /\ riders[resp.id].user = "u1"
    /\ \E i \in 1..Len(passengers) : passengers[i].user = "u1"

\* C9: my_profile answers 404 {error: "<Role> profile not found"} to a
\* requester who owns no profile of that type, and 200 with the requester's
\* own profile to one who does; it changes neither the store nor the cache.
C9_MyProfile ==
    [][/\ (resp' # resp /\ resp'.op = "passenger.my_profile")
          => /\ UNCHANGED <<passengers, riders, cache>>
             /\ IF resp'.user \in Owners(passengers)
                THEN /\ resp'.status = HTTP_200_OK
                     /\ Len(resp'.body) = 1
                     /\ resp'.body[1].user.id = resp'.user
                     /\ \E i \in 1..Len(passengers) :
                            resp'.body[1] = PassengerSerializer(passengers[i])
                ELSE /\ resp'.status = HTTP_404_NOT_FOUND
                     /\ resp'.error = "Passenger profile not found"
                     /\ resp'.body = <<>>
       /\ (resp' # resp /\ resp'.op = "rider.my_profile")
          => /\ UNCHANGED <<passengers, riders, cache>>
             /\ IF resp'.user \in Owners(riders)
                THEN /\ resp'.status = HTTP_200_OK
                     /\ Len(resp'.body) = 1
                     /\ resp'.body[1].user.id = resp'.user
                     /\ \E i \in 1..Len(riders) :
                            resp'.body[1] = RiderSerializer(riders[i])
                ELSE /\ resp'.status = HTTP_404_NOT_FOUND
                     /\ resp'.error = "Rider profile not found"
                     /\ resp'.body = <<>>]_vars

\* The staff user, who sees every rider, owns none and asks for my_profile
\* while the two others own one each: 404, not one of theirs.
C9_Witness ==
    /\ resp.op = "rider.my_profile" /\ resp.user = "admin"
    /\ resp.status = HTTP_404_NOT_FOUND
    /\ Owners(riders) = {"u1", "u2"}

\* C10: a staff requester's list holds every profile of the table, whoever
\* owns it.
C10_StaffListsAll ==
    [][/\ (resp' # resp /\ resp'.op = "passenger.list" /\ is_staff(resp'.user))
          => /\ Len(resp'.body) = Len(passengers)
             /\ \A i \in 1..Len(passengers) :
                    \E j \in 1..Len(resp'.body) :
                        /\ resp'.body[j].id = passengers[i].id
                        /\ resp'.body[j].user.id = passengers[i].user
       /\ (resp' # resp /\ resp'.op = "rider.list" /\ is_staff(resp'.user))
          => /\ Len(resp'.body) = Len(riders)
             /\ \A i \in 1..Len(riders) :
                    \E j \in 1..Len(resp'.body) :
                        /\ resp'.body[j].id = riders[i].id
                        /\ resp'.body[j].user.id = riders[i].user]_vars

\* Staff lists the riders and gets the profiles of u1 and u2.
C10_Witness ==
    /\ resp.op = "rider.list" /\ resp.user = "admin"
    /\ Len(resp.body) = 2
    /\ {resp.body[1].user.id, resp.body[2].user.id} = {"u1", "u2"}

\* The profiles available_riders is meant to list: available and approved.
Listed(r) == r.is_available /\ r.verification_status = "approved"
ListedNow == {RiderSerializer(riders[i]) : i \in {j \in 1..Len(riders) : Listed(riders[j])}}
Elements(seq) == {seq[i] : i \in 1..Len(seq)}

\* C2: update_location by a requester who is neither the rider's owner nor
\* staff is answered 403, deletes nothing from the cache and writes nothing
\* to the store.
C2_NonOwnerForbidden ==
    [][(/\ resp' # resp /\ resp'.op = "rider.update_location"
        /\ ~is_staff(resp'.user)
        /\ resp'.id \in 1..Len(riders) /\ riders[resp'.id].user # resp'.user)
       => /\ resp'.status = HTTP_403_FORBIDDEN
          /\ UNCHANGED <<riders, passengers, cache>>]_vars

\* What the code does keep of C2: the request is refused (with 404, by
\* get_object) and changes neither the cache nor the store.
C2_RefusedWithoutEffect ==
    [][(/\ resp' # resp /\ resp'.op = "rider.update_location"
        /\ ~is_staff(resp'.user)
        /\ resp'.id \in 1..Len(riders) /\ riders[resp'.id].user # resp'.user)
       => /\ resp'.status = HTTP_404_NOT_FOUND
          /\ UNCHANGED <<riders, passengers, cache>>]_vars

C4_TwoCallsWithin300 ==
    \A p \in Procs :
        (/\ pc[p] \in {"ar_hit", "ar_set"}
         /\ last_ar # <<>> /\ now - last_ar[1].time < CACHE_TIMEOUT)
        => /\ local[p].data = last_ar[1].body
           /\ ~(pc[p] = "ar_set" /\ last_ar[1].source = "store")

\* C4 amended: an available_riders call made before the entry that the
\* previous call returned or stored expires (less than 300 seconds after
\* that entry was cached), with no location update in between, is served
\* from the cache and returns the previous call's payload.
C4_TwoCallsWithinEntryLifetime ==
    \A p \in Procs :
        (/\ pc[p] \in {"ar_hit", "ar_filter", "ar_set"}
         /\ last_ar # <<>> /\ now < last_ar[1].expires)
        => /\ pc[p] = "ar_hit"
           /\ local[p].data = last_ar[1].body

\* A second call within the entry's lifetime is about to return the first
\* call's payload although the store's listing has changed meanwhile.
C4_Witness ==
    /\ pc[1] = "ar_hit"
    /\ last_ar # <<>> /\ now < last_ar[1].expires /\ last_ar[1].time < now
    /\ local[1].data = last_ar[1].body
    /\ Elements(local[1].data) # ListedNow

\* C5: once an update_location has returned, the slot never holds, and no
\* available_riders call that starts afterwards gets from it, a payload read
\* from the store before that update's save.
C5_NoPayloadOlderThanInvalidation ==
    /\ cache # <<>> => ~prov.cache.old
    /\ \A p \in Procs : pc[p] = "ar_hit" => ~prov.local[p].old

\* C7: update / partial_update never touches the cache slot, and a call
\* that finds an unexpired entry returns it as it is: a change of
\* is_available made through update stays unseen until the entry expires or
\* a location update deletes it.
C7_GenericUpdateLeavesCache ==
    [][/\ (resp' # resp /\ resp'.op = "rider.update") => cache' = cache
       /\ \A p \in Procs :
            (pc[p] = "ar_hit" /\ pc'[p] = "idle")
            => /\ cache' = cache /\ CacheGet(cache, now) # <<>>
               /\ resp'.source = "cache"
               /\ resp'.body = cache[1].value]_vars

\* Riders 1 and 2 are both available and approved, and available_riders
\* has just answered with rider 1 alone, from the cache, before the entry
\* expired: rider 2 became listed through update after the entry was stored.
C7_Witness ==
    /\ resp.op = "rider.available_riders" /\ resp.source = "cache"
    /\ Listed(riders[1]) /\ Listed(riders[2])
    /\ resp.body = <<RiderSerializer(riders[1])>>
    /\ CacheGet(cache, now) # <<>> /\ cache[1].value = resp.body

\* C8: a call that misses returns the riders that are available and
\* approved in the store, each once and no other, and stores that payload
\* in the slot for 300 seconds.
C8_MissReturnsListing ==
    [][\A p \in Procs :
        (pc[p] = "ar_set" /\ pc'[p] = "idle")
        => /\ resp'.op = "rider.available_riders" /\ resp'.source = "store"
           /\ \A i \in 1..Len(riders) :
                Listed(riders[i]) <=>
                    \E j \in 1..Len(resp'.body) : resp'.body[j] = RiderSerializer(riders[i])
           /\ \A j \in 1..Len(resp'.body) :
                \E i \in 1..Len(riders) : resp'.body[j] = RiderSerializer(riders[i])
           /\ \A j, k \in 1..Len(resp'.body) : resp'.body[j] = resp'.body[k] => j = k
           /\ cache' = <<[value |-> resp'.body, expires |-> now + CACHE_TIMEOUT]>>]_vars

\* A miss has just answered with rider 2 alone, rider 1 being available but
\* pending, and the slot holds that payload.
C8_Witness ==
    /\ resp.op = "rider.available_riders" /\ resp.source = "store"
    /\ riders[1].is_available /\ riders[1].verification_status = "pending"
    /\ Listed(riders[2])
    /\ resp.body = <<RiderSerializer(riders[2])>>
    /\ cache # <<>> /\ cache[1].value = resp.body

\* The columns of a Rider row that only the server computes.
ServerComputed == {"average_rating", "total_rides", "total_earnings"}

\* C11: no step of create, update, partial_update or update_location, by
\* any requester and with any payload, removes a profile or changes an
\* existing profile's owner or an existing rider's average_rating,
\* total_rides or total_earnings; a new row is owned by the requester and
\* holds the columns' defaults, not the payload's values.
C11_OwnerAndComputedFieldsKept ==
    [][/\ Len(passengers') >= Len(passengers) /\ Len(riders') >= Len(riders)
       /\ \A i \in 1..Len(passengers) : passengers'[i].user = passengers[i].user
       /\ \A i \in 1..Len(riders) :
            /\ riders'[i].user = riders[i].user
            /\ \A f \in ServerComputed : riders'[i][f] = riders[i][f]
       /\ \A i \in (Len(riders) + 1)..Len(riders') :
            /\ riders'[i].user = resp'.user
            /\ \A f \in ServerComputed : riders'[i][f] = RiderDefaults[f]]_vars

\* u1's rider, created from the payload that names u2 and the computed
\* fields, has since been written by update (is_available) and by
\* update_location (current_latitude), both with payloads naming u2 and a
\* rating: it is still u1's and its computed fields are the defaults.
C11_Witness ==
    \E i \in 1..Len(riders) :
        /\ riders[i].user = "u1" /\ riders[i].verification_status = "pending"
        /\ riders[i].is_available /\ riders[i].current_latitude = "1.00"
        /\ riders[i].average_rating = RiderDefaults.average_rating
        /\ resp.op = "rider.update_location" /\ resp.status = HTTP_200_OK /\ resp.id = i

\* C12: a call that found the slot empty goes on to read the store and then
\* to write the slot, whatever another call has written meanwhile, and the
\* slot then holds that call's payload (the last write wins); two payloads
\* read with no store write since the earlier read (one in flight and one
\* written, or both in flight) are equal.
C12_BothWriteLastWins ==
    [][/\ \A p \in Procs :
            /\ (pc[p] = "ar_filter" /\ pc'[p] # pc[p])
               => /\ pc'[p] = "ar_set"
                  /\ Elements(local'[p].data) = ListedNow
            /\ (pc[p] = "ar_set" /\ pc'[p] # pc[p])
               => /\ pc'[p] = "idle"
                  /\ cache' # <<>> /\ cache'[1].value = local[p].data
                  /\ resp'.body = local[p].data /\ resp'.source = "store"
       /\ \A p, q \in Procs :
            (/\ pc'[p] = "ar_set" /\ pc'[q] = "ar_set"
             /\ prov'.local[p] = Fresh /\ prov'.local[q] = Fresh)
            => local'[p].data = local'[q].data
       /\ \A p \in Procs :
            (/\ pc'[p] = "ar_set" /\ prov'.local[p] = Fresh
             /\ cache' # <<>> /\ prov'.cache = Fresh)
            => local'[p].data = cache'[1].value]_vars

\* Two calls found the slot empty after rider 1's location was updated; the
\* other call has written the slot and the call in slot 1 is about to write
\* it again, with an equal payload.
C12_Witness ==
    /\ pc[1] = "ar_set" /\ pc[2] = "idle"
    /\ resp.op = "rider.available_riders" /\ resp.source = "store"
    /\ cache # <<>> /\ cache[1].value = resp.body
    /\ prov.cache = Fresh /\ prov.local[1] = Fresh
    /\ local[1].data = cache[1].value
    /\ Len(local[1].data) = 2 /\ local[1].data[1].current_latitude = "1.00"

\* C13: a call takes the cached branch only while the entry is less than
\* 300 seconds old (before its expiry, which cache.set put 300 seconds after
\* the time it stored the entry) and then returns the entry's payload; a
\* call made at or after the expiry reads the store, and stores what it read
\* with a lifetime of 300 seconds from that moment.
C13_NeverServedAfter300 ==
    [][\A p \in Procs :
        /\ (ARBegins(p) /\ cache # <<>>)
           => IF now < cache[1].expires
              THEN pc'[p] = "ar_hit" /\ local'[p].data = cache[1].value
              ELSE pc'[p] = "ar_filter"
        /\ (ARBegins(p) /\ cache = <<>>) => pc'[p] = "ar_filter"
        /\ (pc[p] = "ar_hit" /\ pc'[p] = "idle")
           => /\ cache # <<>> /\ now < cache[1].expires
              /\ resp'.body = cache[1].value /\ cache' = cache
        /\ (pc[p] = "ar_filter" /\ pc'[p] # pc[p])
           => pc'[p] = "ar_set" /\ Elements(local'[p].data) = ListedNow
        /\ (pc[p] = "ar_set" /\ pc'[p] = "idle")
           => /\ cache' = <<[value |-> local[p].data, expires |-> now + CACHE_TIMEOUT]>>
              /\ resp'.body = local[p].data]_vars

\* The call made at the very second the entry expires (300 seconds after
\* it was stored, the entry still in the slot and differing from the store's
\* listing) is reading the store.
C13_Witness ==
    /\ pc[1] = "ar_filter"
    /\ cache # <<>> /\ cache[1].expires = now /\ now = CACHE_TIMEOUT
    /\ Elements(cache[1].value) # ListedNow

CoordinateFields == {"current_latitude", "current_longitude"}

\* C14: the store write of an update_location request gives each coordinate
\* the request supplies the supplied value and leaves the other coordinate,
\* every other column of that rider (is_available, verification_status,
\* owner, ...), every other rider and every passenger as the store held
\* them; the request's other steps write nothing.
C14_OnlyCoordinatesChange ==
    [][\A p \in Procs :
        /\ ULSaves(p)
           => LET id == local[p].id
                  d == local[p].data
              IN /\ \A f \in CoordinateFields :
                        riders'[id][f] = IF f \in DOMAIN d THEN d[f] ELSE riders[id][f]
                 /\ \A f \in (DOMAIN riders[id]) \ CoordinateFields :
                        riders'[id][f] = riders[id][f]
                 /\ \A j \in 1..Len(riders) : j # id => riders'[j] = riders[j]
                 /\ Len(riders') = Len(riders) /\ passengers' = passengers
        /\ ((resp' # resp /\ resp'.op = "rider.update_location") \/ ULReturns(p))
           => UNCHANGED <<riders, passengers>>]_vars

\* A write that has just answered with success, and the row it wrote.
Wrote(op) == resp' # resp /\ resp'.op = op /\ resp'.status \in {HTTP_200_OK, HTTP_201_CREATED}

\* C15 as stated: after every successful create, update or update_location
\* the written profile is owned by the requester.
C15_WriteStampsRequester ==
    [][/\ \A op \in {"rider.create", "rider.update", "rider.update_location"} :
            Wrote(op) => riders'[resp'.id].user = resp'.user
       /\ \A op \in {"passenger.create", "passenger.update"} :
            Wrote(op) => passengers'[resp'.id].user = resp'.user]_vars

\* C15 amended: a successful create leaves the new profile owned by the
\* requester; a successful update, partial_update or update_location leaves
\* the profile owned by whoever owned it before, also when the requester is
\* staff and not the owner; the owner named in the payload is never taken.
C15_CreateStampsUpdateKeepsOwner ==
    [][/\ Wrote("rider.create")
          => /\ resp'.id = Len(riders) + 1 /\ riders'[resp'.id].user = resp'.user
             /\ resp'.body[1].user.id = resp'.user
       /\ Wrote("passenger.create")
          => /\ resp'.id = Len(passengers) + 1 /\ passengers'[resp'.id].user = resp'.user
             /\ resp'.body[1].user.id = resp'.user
       /\ \A op \in {"rider.update", "rider.update_location"} :
            Wrote(op)
            => /\ resp'.id \in 1..Len(riders)
               /\ riders'[resp'.id].user = riders[resp'.id].user
               /\ resp'.body[1].user.id = riders[resp'.id].user
               /\ (is_staff(resp'.user) \/ riders[resp'.id].user = resp'.user)
       /\ Wrote("passenger.update")
          => /\ resp'.id \in 1..Len(passengers)
             /\ passengers'[resp'.id].user = passengers[resp'.id].user
             /\ resp'.body[1].user.id = passengers[resp'.id].user
             /\ (is_staff(resp'.user) \/ passengers[resp'.id].user = resp'.user)]_vars

\* Staff has just updated u1's rider with a payload naming u2 as owner:
\* is_available is written and the rider is still u1's.
C15_Witness ==
    /\ resp.op = "rider.update" /\ resp.user = "admin" /\ resp.status = HTTP_200_OK
    /\ riders[resp.id].user = "u1" /\ riders[resp.id].is_available
    /\ resp.body[1].user.id = "u1"

\* C16: a create request on a Rider whose payload holds average_rating,
\* total_rides or total_earnings is refused with an error, and no row is
\* added.
C16_ComputedFieldsRejected ==
    [][\A u \in Users, d \in RiderCreateData :
        (Rider_create(u, d) /\ (DOMAIN d) \cap ServerComputed # {})
        => /\ riders' = riders
           /\ resp'.status \notin {HTTP_200_OK, HTTP_201_CREATED}
           /\ resp'.error # ""]_vars

\* C17: a call that reads the store when no rider is available and
\* approved stores the empty list for 300 seconds; a call that finds the
\* stored empty list unexpired takes the cached branch and returns the empty
\* list without reading the store, whatever the store's listing is by then.
C17_EmptyListCached ==
    [][\A p \in Procs :
        /\ (ARReads(p) /\ ListedNow = {}) => local'[p].data = <<>>
        /\ (pc[p] = "ar_set" /\ pc'[p] = "idle" /\ local[p].data = <<>>)
           => /\ cache' = <<[value |-> <<>>, expires |-> now + CACHE_TIMEOUT]>>
              /\ resp'.body = <<>>
        /\ (ARBegins(p) /\ cache # <<>> /\ now < cache[1].expires /\ cache[1].value = <<>>)
           => pc'[p] = "ar_hit" /\ local'[p].data = <<>>
        /\ (pc[p] = "ar_hit" /\ pc'[p] = "idle" /\ local[p].data = <<>>)
           => /\ resp'.body = <<>> /\ resp'.source = "cache"
              /\ UNCHANGED <<riders, cache>>]_vars

\* A call has just returned the empty list from the cache although a rider
\* is available and approved by now (through update).
C17_Witness ==
    /\ resp.op = "rider.available_riders" /\ resp.source = "cache" /\ resp.body = <<>>
    /\ cache # <<>> /\ cache[1].value = <<>> /\ now < cache[1].expires
    /\ ListedNow # {}

\* C18: what available_riders returns does not depend on the requester: a
\* call that reads the store returns every available and approved rider,
\* whoever owns it and whoever asks, and a call that takes the cached branch
\* returns the payload in the slot as the call that stored it returned it,
\* whoever made that call.
C18_SamePayloadForEveryRequester ==
    [][\A p \in Procs :
        /\ (pc[p] = "ar_set" /\ pc'[p] = "idle")
           => /\ Elements(resp'.body) = ListedNow
              /\ Len(resp'.body) = Cardinality(ListedNow)
        /\ (pc[p] = "ar_hit" /\ pc'[p] = "idle")
           => /\ last_ar # <<>> /\ resp'.body = last_ar[1].body
              /\ resp'.body = cache[1].value]_vars

\* Non-staff u1 has just been served, from the cache, a payload that staff's
\* call stored and that holds u2's rider.
C18_Witness ==
    /\ resp.op = "rider.available_riders" /\ resp.user = "u1" /\ resp.source = "cache"
    /\ last_ar # <<>> /\ last_ar[1].by = "admin"
    /\ \E j \in 1..Len(resp.body) : resp.body[j].user.id = "u2"
====
